---------------------------- MODULE Spec2Model ----------------------------
(***************************************************************************)
(* A model of the librato outlet of l2met (src/librato/main.go).           *)
(*                                                                         *)
(* The outlet is a pipeline of goroutines joined by three buffered         *)
(* channels:                                                               *)
(*                                                                         *)
(*   lockPartition -> scheduleFetch/fetch -> inbox -> scheduleConvert/     *)
(*   convert -> lms -> batch -> outbox -> post                             *)
(*                                                                         *)
(* Every stage is modelled by the actions of its goroutine.  A stage is    *)
(* explored in a specification of its own (SpecLock, SpecFetch,            *)
(* SpecConvert, SpecBatch, SpecPost) whose initial states hold the         *)
(* channel contents the stages before it can have produced.                *)
(***************************************************************************)
EXTENDS Integers, Sequences, FiniteSets, TLC

VARIABLES
    pc,          \* per process: "scan" (in lockPartition), "run", "dead"
    scanIdx,     \* per process: the loop variable p of lockPartition
    partitionId, \* per process: the package variable partitionId
    advisory,    \* the advisory locks of the database: index -> holder
    now,         \* the time (in seconds) of the scheduler's last tick
    fpc,         \* scheduleFetch: "tick" (waiting) or "push" (inside fetch)
    rows,        \* the ids scanBuckets has still to hand to fetch
    fetched,     \* the ids the last fetch has pushed onto inbox so far
    redo,        \* when the last fetch started, every bucket of its window
                 \* had already been pushed onto inbox and taken off it
    inbox,       \* the channel inbox: a queue of bucket ids
    cpc,         \* per conversion worker: 0 (receiving) or the next send 1..9
    cb,          \* per conversion worker: the bucket it converts
    converted,   \* the bucket ids conversion workers have taken from inbox
    hydrated,    \* the bucket ids whose b.Get() succeeded with samples
    lms,         \* the channel lms: a queue of LM records
    nextLM,      \* per sender: the number of LM records it has allocated
    batchMap,    \* batch: token -> batch (only the tokens present)
    bpc,         \* batch: "select", "cap" (line 262) or "purge" (line 245)
    btoken,      \* batch: the token of the record being handled
    ticks,       \* batch: for each tick handled, the records received before it
    received,    \* batch: the number of records received from lms
    outbox,      \* the channel outbox: a queue of batches
    ppc,         \* per post worker: "idle", "try" (in the retry loop), "done"
    metrics,     \* per post worker: the batch received from outbox
    retry,       \* per post worker: the loop variable i of the retry loop
    creds,       \* per post worker: the tokens whose credentials it read
    requests,    \* per post worker: HTTP requests made for the current batch
    delivered,   \* per post worker: a 2xx response was received for the batch
    plog         \* per post worker: the at= entries printed for the batch

lockVars == <<pc, scanIdx, partitionId, advisory>>

fetchVars == <<now, fpc, rows, fetched, redo>>

convVars == <<cpc, cb, converted, hydrated, nextLM>>

batchVars == <<batchMap, bpc, btoken, ticks, received>>

postVars == <<ppc, metrics, retry, creds, requests, delivered, plog>>

chanVars == <<inbox, lms, outbox>>

vars == <<lockVars, fetchVars, convVars, batchVars, postVars, chanVars>>

-----------------------------------------------------------------------------
(* Bounds of the model and constants of the program.                       *)

\* Number of outlet processes started against the same database.
NumProcs == 3

\* MAX_LIBRATO_PROCS, read by init().
maxPartitions == 2

\* The capacities of the channels main makes.
inboxCap == 1000

lmsCap == 1000

outboxCap == 1000

\* A send that never finds its channel full.
HasRoomAlways(ch, cap) == TRUE

\* ch <- x on a buffered channel goes through when the channel holds fewer
\* items than its capacity, and blocks the sender otherwise.
HasRoom(ch, cap) == Len(ch) < cap

\* The -workers flag: the number of conversion and of post goroutines.
workers == 2

Workers == 1 .. workers

\* The sender of the records a specification finds on a channel in its
\* initial state.
Upstream == 0

\* The senders of LM records.
Senders == {Upstream} \cup Workers

Procs == 1 .. NumProcs

Partitions == 0 .. (maxPartitions - 1)

\* An advisory lock nobody holds.
Free == 0

-----------------------------------------------------------------------------
(* lockPartition                                                           *)

\* A variant of the acquisition test that trusts any non-NULL answer.
AcquiredIgnoringBool(valid, bool) == valid

\* The test lockPartition applies to the scanned sql.NullBool.
Acquired(valid, bool) == valid /\ bool

\* select pg_try_advisory_lock(p), asked by the session of process i: the
\* lock is granted when no other session holds it.
TryAdvisoryLock(i, p) == advisory[p] = Free \/ advisory[p] = i

\* A scan that gives up at the first index it does not acquire.
LockSkipFatal(i, p) ==
    /\ pc' = [pc EXCEPT ![i] = "dead"]
    /\ UNCHANGED <<scanIdx, partitionId, advisory>>

\* The index is not acquired (continue after a failed query, or the end of
\* the loop body): the scan goes on with the next index.
LockSkip(i, p) ==
    /\ scanIdx' = [scanIdx EXCEPT ![i] = p + 1]
    /\ UNCHANGED <<pc, partitionId, advisory>>

\* One iteration of the inner loop of lockPartition: the query for index
\* scanIdx[i] fails (continue), or answers one row.
LockQuery(i) ==
    /\ pc[i] = "scan"
    /\ scanIdx[i] < maxPartitions
    /\ \E err \in BOOLEAN :
          LET p == scanIdx[i]
              granted == TryAdvisoryLock(i, p)
          IN  IF err
              THEN LockSkip(i, p)
              ELSE IF Acquired(TRUE, granted)
                   THEN /\ advisory' = [advisory EXCEPT ![p] = i]
                        /\ partitionId' = [partitionId EXCEPT ![i] = p]
                        /\ pc' = [pc EXCEPT ![i] = "run"]
                        /\ UNCHANGED scanIdx
                   ELSE LockSkip(i, p)
    /\ UNCHANGED <<fetchVars, convVars, batchVars, postVars, chanVars>>

\* A scan that is not restarted: the process gives up.
LockSleepGiveUp(i) ==
    /\ pc[i] = "scan"
    /\ scanIdx[i] = maxPartitions
    /\ pc' = [pc EXCEPT ![i] = "dead"]
    /\ UNCHANGED <<scanIdx, partitionId, advisory>>
    /\ UNCHANGED <<fetchVars, convVars, batchVars, postVars, chanVars>>

\* The scan found no index: sleep ten seconds and restart the scan.
LockSleep(i) ==
    /\ pc[i] = "scan"
    /\ scanIdx[i] = maxPartitions
    /\ scanIdx' = [scanIdx EXCEPT ![i] = 0]
    /\ UNCHANGED <<pc, partitionId, advisory>>
    /\ UNCHANGED <<fetchVars, convVars, batchVars, postVars, chanVars>>

\* The process ends; the database releases the locks of its session.
ProcessExit(i) ==
    /\ pc[i] = "run"
    /\ pc' = [pc EXCEPT ![i] = "dead"]
    /\ advisory' = [q \in Partitions |-> IF advisory[q] = i THEN Free ELSE advisory[q]]
    /\ UNCHANGED <<scanIdx, partitionId>>
    /\ UNCHANGED <<fetchVars, convVars, batchVars, postVars, chanVars>>

-----------------------------------------------------------------------------
(* The LM records and the batches the channels carry.                      *)

\* The account tokens of the buckets.
Tokens == {"abc", "xyz"}

\* An LM record.  Serial stands for the identity of the allocated record
\* (the *LM pointer the channels carry): the pair of its sender and of the
\* number of records the sender has allocated.  Name is the pair of the bucket's
\* name and the suffix of the statistic; Time, Val and Source are not read
\* by any stage after convert and are left out.
LM(token, name, serial) == [Token |-> token, Name |-> name, Serial |-> serial]

-----------------------------------------------------------------------------
(* The buckets table and the discovery: scheduleFetch, fetch, scanBuckets.  *)

\* The process whose pipeline is modelled.
Self == 1

\* The -proc-int flag.
processInterval == 5

\* The largest bucket id of the buckets table.
MaxBucketId == 8

\* The time of the scheduler's last tick in the initial state.
StartTime == 118

\* The time after which the scheduler's ticks are not followed.
MaxTime == 126

BucketIds == 1 .. MaxBucketId

\* The column time of the buckets table: the start of the bucket's minute.
BucketTime(id) == IF id <= 2 THEN 0 ELSE IF id <= 6 THEN 60 ELSE 120

\* The token of a bucket, as b.Get() loads it.
BucketToken(id) == IF (id \div 2) % 2 = 0 THEN "abc" ELSE "xyz"

\* The name of a bucket, as b.Get() loads it.
BucketName(id) == <<"m", id>>

\* len(b.Vals) after b.Get()
BucketVals(id) == IF id % 4 = 3 THEN 0 ELSE id

\* A rounding to the end of the minute of t.
RoundTimeUp(t) == ((t \div 60) + 1) * 60

\* utils.RoundTime(t, time.Minute)
RoundTime(t) == (t \div 60) * 60

\* A where clause without the MOD test.
InShardAny(id, q) == TRUE

\* MOD(id, $3) = $4
InShard(id, q) == id % maxPartitions = q

\* The ids the where clause of scanBuckets selects.
Selected(lo, hi, q) ==
    { id \in BucketIds : BucketTime(id) >= lo /\ BucketTime(id) < hi /\ InShard(id, q) }

\* The orders in which the query can return them: order by time desc.
QueryResults(lo, hi, q) ==
    LET ids == Selected(lo, hi, q)
    IN  { r \in [1 .. Cardinality(ids) -> ids] :
            /\ \A i, j \in DOMAIN r : i # j => r[i] # r[j]
            /\ \A i, j \in DOMAIN r : i < j => BucketTime(r[i]) >= BucketTime(r[j]) }

\* t.Second()%*processInterval == 0
FetchDue(t) == (t % 60) % processInterval = 0

\* One tick of the scheduler's ticker, a second after the last one, and,
\* when the tick is due, the start of fetch: the window and the query of
\* scanBuckets, which fails (no rows) or returns the selected ids.
SchedTick ==
    /\ pc[Self] = "run"
    /\ fpc = "tick"
    /\ now < MaxTime
    /\ now' = now + 1
    /\ IF FetchDue(now')
       THEN LET hi == RoundTime(now')
                lo == hi - 60
                q == partitionId[Self]
            IN  /\ \E err \in BOOLEAN :
                      IF err THEN rows' = <<>> ELSE rows' \in QueryResults(lo, hi, q)
                /\ fetched' = <<>>
                /\ redo' = /\ Selected(lo, hi, q) \subseteq converted
                           /\ \A j \in 1 .. Len(inbox) : inbox[j] \notin Selected(lo, hi, q)
                /\ fpc' = IF rows' = <<>> THEN "tick" ELSE "push"
       ELSE UNCHANGED <<fpc, rows, fetched, redo>>
    /\ UNCHANGED chanVars
    /\ UNCHANGED <<lockVars, convVars, batchVars, postVars>>

\* One row of the query: rows.Scan fails and the row is skipped, or the id
\* goes through the channel of scanBuckets and fetch pushes a placeholder
\* onto inbox (the send blocks while inbox is full).
FetchPush ==
    /\ fpc = "push"
    /\ \E err \in BOOLEAN :
          IF err
          THEN UNCHANGED <<inbox, fetched>>
          ELSE /\ HasRoom(inbox, inboxCap)
               /\ inbox' = Append(inbox, Head(rows))
               /\ fetched' = Append(fetched, Head(rows))
    /\ rows' = Tail(rows)
    /\ fpc' = IF Tail(rows) = <<>> THEN "tick" ELSE "push"
    /\ UNCHANGED <<now, redo, lms, outbox>>
    /\ UNCHANGED <<lockVars, convVars, batchVars, postVars>>

-----------------------------------------------------------------------------
(* scheduleConvert and convert                                             *)

\* The number of records the conversion workers send ahead of the batcher
\* in the runs SpecConvert explores.
MaxPending == 2

\* The suffixes with .perc95 sent twice.
StatsRepeated == <<"last", "min", "max", "mean", "median", "perc95", "perc95", "count", "sum">>

\* The suffixes of the names of the records convert sends, in its order.
Stats == <<"last", "min", "max", "mean", "median", "perc95", "perc99", "count", "sum">>

\* A worker that puts the placeholder it cannot convert back on inbox.
ConvertDropRequeue(w) ==
    /\ cpc[w] = 0
    /\ inbox # <<>>
    /\ \E err \in BOOLEAN : err \/ BucketVals(Head(inbox)) = 0
    /\ inbox' = Append(Tail(inbox), Head(inbox))
    /\ cb' = [cb EXCEPT ![w] = Head(inbox)]
    /\ converted' = converted \cup {Head(inbox)}
    /\ UNCHANGED <<cpc, hydrated, nextLM, lms, outbox>>
    /\ UNCHANGED <<lockVars, fetchVars, batchVars, postVars>>

\* A worker receives a placeholder and drops it: b.Get() fails, or loads
\* no samples.
ConvertDrop(w) ==
    /\ cpc[w] = 0
    /\ inbox # <<>>
    /\ \E err \in BOOLEAN : err \/ BucketVals(Head(inbox)) = 0
    /\ inbox' = Tail(inbox)
    /\ cb' = [cb EXCEPT ![w] = Head(inbox)]
    /\ converted' = converted \cup {Head(inbox)}
    /\ UNCHANGED <<cpc, hydrated, nextLM, lms, outbox>>
    /\ UNCHANGED <<lockVars, fetchVars, batchVars, postVars>>

\* A worker receives a placeholder, b.Get() succeeds and loads samples.
ConvertStart(w) ==
    /\ cpc[w] = 0
    /\ inbox # <<>>
    /\ BucketVals(Head(inbox)) > 0
    /\ inbox' = Tail(inbox)
    /\ cb' = [cb EXCEPT ![w] = Head(inbox)]
    /\ cpc' = [cpc EXCEPT ![w] = 1]
    /\ converted' = converted \cup {Head(inbox)}
    /\ hydrated' = hydrated \cup {Head(inbox)}
    /\ UNCHANGED <<nextLM, lms, outbox>>
    /\ UNCHANGED <<lockVars, fetchVars, batchVars, postVars>>

\* The next of the nine sends of convert (the send blocks while lms is
\* full); after the ninth the worker is back at the receive.
ConvertSend(w) ==
    /\ cpc[w] >= 1
    /\ HasRoom(lms, lmsCap)
    /\ lms' = Append(lms, LM(BucketToken(cb[w]),
                             <<BucketName(cb[w]), Stats[cpc[w]]>>,
                             <<w, nextLM[w] + 1>>))
    /\ nextLM' = [nextLM EXCEPT ![w] = @ + 1]
    /\ cpc' = [cpc EXCEPT ![w] = IF cpc[w] = Len(Stats) THEN 0 ELSE cpc[w] + 1]
    /\ UNCHANGED <<cb, converted, hydrated, inbox, outbox>>
    /\ UNCHANGED <<lockVars, fetchVars, batchVars, postVars>>

-----------------------------------------------------------------------------
(* batch                                                                   *)

\* The capacity batch gives the slice of a new batch.
batchCap == 50

\* The number of ticks of its ticker the batcher handles.
MaxTicks == 1

\* A map keyed by a field every record shares.
BatchKeyShared(lm) == ""

\* The key of batchMap: lm.Token.
BatchKey(lm) == lm.Token

\* The absent record a slice made with length 1 holds at index 0.
NilLM == LM("", <<"", "">>, <<Upstream, 0>>)

\* A new batch that keeps the nil element and appends the record.
NewBatchAppended(lm) == <<NilLM, lm>>

\* make([]*LM, 1, 50) with the record stored at index 0.
NewBatch(lm) == <<lm>>

\* A batch that takes a new record at its front.
Prepended(v, lm) == <<lm>> \o v

\* append(batchMap[lm.Token], lm)
Appended(v, lm) == Append(v, lm)

\* A capacity test that never holds.
FullNever(v) == FALSE

\* len(batchMap[lm.Token]) == cap(batchMap[lm.Token]): a batch is made
\* with capacity batchCap and never appended to beyond it, so its capacity
\* stays batchCap.
Full(v) == Len(v) = batchCap

\* A delete that leaves the map as it is.
WithoutNothing(m, k) == m

\* delete(batchMap, k)
Without(m, k) == [t \in DOMAIN m \ {k} |-> m[t]]

\* batchMap[k] = v
With(m, k, v) == [t \in DOMAIN m \cup {k} |-> IF t = k THEN v ELSE m[t]]

RECURSIVE HeldCount(_)
\* The number of entries of the batches of the keys ks of batchMap.
HeldCount(ks) ==
    IF ks = {} THEN 0
    ELSE LET k == CHOOSE t \in ks : TRUE
         IN  Len(batchMap[k]) + HeldCount(ks \ {k})

\* case lm := <-lms, up to the capacity test.
BatchRecv ==
    /\ bpc = "select"
    /\ lms # <<>>
    /\ LET lm == Head(lms)
           k == BatchKey(lm)
           v == IF k \in DOMAIN batchMap THEN Appended(batchMap[k], lm) ELSE NewBatch(lm)
       IN  /\ lms' = Tail(lms)
           /\ received' = received + 1
           /\ batchMap' = With(batchMap, k, v)
           /\ btoken' = k
           /\ bpc' = IF Full(v) THEN "cap" ELSE "select"
    /\ UNCHANGED <<ticks, inbox, outbox>>
    /\ UNCHANGED <<lockVars, fetchVars, convVars, postVars>>

\* The capacity trigger: outbox <- batchMap[lm.Token], then the delete.
\* The send blocks while outbox is full.
BatchCapSend ==
    /\ bpc = "cap"
    /\ HasRoom(outbox, outboxCap)
    /\ outbox' = Append(outbox, batchMap[btoken])
    /\ batchMap' = Without(batchMap, btoken)
    /\ bpc' = "select"
    /\ UNCHANGED <<btoken, ticks, received, inbox, lms>>
    /\ UNCHANGED <<lockVars, fetchVars, convVars, postVars>>

\* A purge that pushes only the batches of two records or more.
NonEmptyPair(v) == Len(v) > 1

\* len(v) > 0
NonEmpty(v) == Len(v) > 0

\* case <-ticker: the batcher starts to range over batchMap.
BatchTick ==
    /\ bpc = "select"
    /\ Len(ticks) < MaxTicks
    /\ ticks' = Append(ticks, received)
    /\ bpc' = IF DOMAIN batchMap = {} THEN "select" ELSE "purge"
    /\ UNCHANGED <<batchMap, btoken, received>>
    /\ UNCHANGED chanVars
    /\ UNCHANGED <<lockVars, fetchVars, convVars, postVars>>

\* One iteration of the range over batchMap, which visits the keys in no
\* fixed order: a non-empty batch is sent (the send blocks while outbox is
\* full) and its key deleted.
BatchPurge ==
    /\ bpc = "purge"
    /\ \E k \in DOMAIN batchMap :
          LET v == batchMap[k]
              left == Without(batchMap, k)
          IN  /\ IF NonEmpty(v)
                 THEN /\ HasRoom(outbox, outboxCap)
                      /\ outbox' = Append(outbox, v)
                 ELSE UNCHANGED outbox
              /\ batchMap' = left
              /\ bpc' = IF DOMAIN left = {} THEN "select" ELSE "purge"
    /\ UNCHANGED <<btoken, ticks, received, inbox, lms>>
    /\ UNCHANGED <<lockVars, fetchVars, convVars, postVars>>

-----------------------------------------------------------------------------
(* post                                                                    *)

\* maxRetry of post.
maxRetry == 5

\* The status codes the endpoint answers with.
StatusCodes == {200, 202, 401, 500}

\* resp.StatusCode/100 == 2
Is2xx(code) == code \div 100 = 2

\* len(metrics) < 1
IsEmptyBatch(m) == Len(m) < 1

\* A retry loop that stops one iteration early.
LoopContinuesShort(i) == i < maxRetry

\* The condition of the retry loop: i <= maxRetry.
LoopContinues(i) == i <= maxRetry

\* A 2xx branch without the break: the loop goes on.
AfterSuccessNoBreak(i) == "try"

\* The break of the 2xx branch: the worker leaves the retry loop.
AfterSuccess(i) == "done"

\* A worker that returns from post when the attempts are exhausted.
AfterFailureExit(i) == IF LoopContinues(i + 1) THEN "try" ELSE "exit"

\* After a failed attempt: i++ and the next iteration, or, the loop
\* condition being false, the next batch of the range over outbox.
AfterFailure(i) == IF LoopContinues(i + 1) THEN "try" ELSE "done"

\* The empty batch is logged but the iteration is not abandoned.
PostRejectNoContinue(w, m) ==
    /\ plog' = [plog EXCEPT ![w] = {"empty-metrics-error"}]
    /\ creds' = [creds EXCEPT ![w] = {}]
    /\ retry' = [retry EXCEPT ![w] = 0]
    /\ ppc' = [ppc EXCEPT ![w] = "try"]

\* The empty batch: log at=empty-metrics-error and continue with the next
\* batch.
PostReject(w, m) ==
    /\ plog' = [plog EXCEPT ![w] = {"empty-metrics-error"}]
    /\ creds' = [creds EXCEPT ![w] = {}]
    /\ retry' = [retry EXCEPT ![w] = 0]
    /\ ppc' = [ppc EXCEPT ![w] = "done"]

\* A non-empty batch: read the credentials of the first record's token,
\* marshal the payload, log at=post-metric and enter the retry loop.
\* json.Marshal of an LP cannot fail and never yields an empty body, so the
\* two branches that test for it are never taken.
PostAccept(w, m) ==
    /\ plog' = [plog EXCEPT ![w] = {"post-metric"}]
    /\ creds' = [creds EXCEPT ![w] = {m[1].Token}]
    /\ retry' = [retry EXCEPT ![w] = 0]
    /\ ppc' = [ppc EXCEPT ![w] = IF LoopContinues(0) THEN "try" ELSE "done"]

\* for metrics := range outbox, up to the retry loop.
PostRecv(w) ==
    /\ ppc[w] \in {"idle", "done"}
    /\ outbox # <<>>
    /\ LET m == Head(outbox)
       IN  /\ outbox' = Tail(outbox)
           /\ metrics' = [metrics EXCEPT ![w] = m]
           /\ requests' = [requests EXCEPT ![w] = 0]
           /\ delivered' = [delivered EXCEPT ![w] = FALSE]
           /\ IF IsEmptyBatch(m) THEN PostReject(w, m) ELSE PostAccept(w, m)
    /\ UNCHANGED <<inbox, lms>>
    /\ UNCHANGED <<lockVars, fetchVars, convVars, batchVars>>

\* One iteration of the retry loop: the request is built (http.NewRequest
\* cannot fail for the fixed method and URL) and sent; err is a transport
\* error of http.DefaultClient.Do, code the status of the response.
PostAttempt(w) ==
    /\ ppc[w] = "try"
    /\ \E err \in BOOLEAN, code \in StatusCodes :
          LET i == retry[w]
              next == AfterFailure(i)
          IN  /\ requests' = [requests EXCEPT ![w] = @ + 1]
              /\ IF err
                 THEN /\ plog' = [plog EXCEPT ![w] = @ \cup {"do-error"}]
                      /\ retry' = [retry EXCEPT ![w] = i + 1]
                      /\ ppc' = [ppc EXCEPT ![w] = next]
                      /\ UNCHANGED delivered
                 ELSE IF Is2xx(code)
                      THEN /\ delivered' = [delivered EXCEPT ![w] = TRUE]
                           /\ ppc' = [ppc EXCEPT ![w] = AfterSuccess(i)]
                           /\ UNCHANGED <<plog, retry>>
                      ELSE /\ plog' = [plog EXCEPT ![w] =
                                  IF i = maxRetry
                                  THEN @ \cup {"librato-status-error"} ELSE @]
                           /\ retry' = [retry EXCEPT ![w] = i + 1]
                           /\ ppc' = [ppc EXCEPT ![w] = next]
                           /\ UNCHANGED delivered
    /\ UNCHANGED <<metrics, creds>>
    /\ UNCHANGED chanVars
    /\ UNCHANGED <<lockVars, fetchVars, convVars, batchVars>>

-----------------------------------------------------------------------------
(* The stages at rest: the state of a stage before its goroutine has       *)
(* taken a step.                                                           *)

IdleLock ==
    /\ pc = [i \in Procs |-> "scan"]
    /\ scanIdx = [i \in Procs |-> 0]
    /\ partitionId = [i \in Procs |-> 0]
    /\ advisory = [q \in Partitions |-> Free]

IdleFetch ==
    /\ now = 0
    /\ fpc = "tick"
    /\ rows = <<>>
    /\ fetched = <<>>
    /\ redo = FALSE

IdleConvert ==
    /\ cpc = [w \in Workers |-> 0]
    /\ cb = [w \in Workers |-> 0]
    /\ converted = {}
    /\ hydrated = {}
    /\ nextLM = [s \in Senders |-> 0]

IdleBatch ==
    /\ batchMap = [t \in {} |-> <<>>]
    /\ bpc = "select"
    /\ btoken = ""
    /\ ticks = <<>>
    /\ received = 0

IdlePost ==
    /\ ppc = [w \in Workers |-> "idle"]
    /\ metrics = [w \in Workers |-> <<>>]
    /\ retry = [w \in Workers |-> 0]
    /\ creds = [w \in Workers |-> {}]
    /\ requests = [w \in Workers |-> 0]
    /\ delivered = [w \in Workers |-> FALSE]
    /\ plog = [w \in Workers |-> {}]

-----------------------------------------------------------------------------
(* The specifications.                                                     *)

\* lockPartition of NumProcs processes against one database.
InitLock ==
    /\ IdleLock /\ IdleFetch /\ IdleConvert /\ IdleBatch /\ IdlePost
    /\ inbox = <<>> /\ lms = <<>> /\ outbox = <<>>

NextLock ==
    \E i \in Procs : LockQuery(i) \/ LockSleep(i) \/ ProcessExit(i)

SpecLock == InitLock /\ [][NextLock]_vars

\* A process inside lockPartition goes on with its loop, and a query on an
\* index whose lock is free, asked again and again, does not fail for ever.
\* Nothing makes a running process end.
FairLock ==
    \A i \in Procs :
        /\ WF_vars(LockQuery(i))
        /\ WF_vars(LockSleep(i))
        /\ SF_vars(LockQuery(i) /\ pc'[i] = "run")

SpecLockFair == SpecLock /\ FairLock

\* Process Self has returned from lockPartition with index q.
RunningOn(q) ==
    /\ pc = [i \in Procs |-> IF i = Self THEN "run" ELSE "scan"]
    /\ scanIdx = [i \in Procs |-> IF i = Self THEN q ELSE 0]
    /\ partitionId = [i \in Procs |-> IF i = Self THEN q ELSE 0]
    /\ advisory = [p \in Partitions |-> IF p = q THEN Self ELSE Free]

\* The scheduler and fetch from StartTime on, with conversion workers whose
\* hydrations fail or find no samples taking the placeholders off inbox.
InitFetch ==
    /\ \E q \in Partitions : RunningOn(q)
    /\ IdleConvert /\ IdleBatch /\ IdlePost
    /\ now = StartTime /\ fpc = "tick" /\ rows = <<>> /\ fetched = <<>> /\ redo = FALSE
    /\ inbox = <<>> /\ lms = <<>> /\ outbox = <<>>

NextFetch ==
    \/ SchedTick
    \/ FetchPush
    \/ \E w \in Workers : ConvertDrop(w)

SpecFetch == InitFetch /\ [][NextFetch]_vars

\* Process Self from the start of main, among the other processes: it
\* scans for a partition index while they do, and its scheduler, started by
\* main after lockPartition has returned, ticks from StartTime on.
InitShard ==
    /\ IdleLock /\ IdleConvert /\ IdleBatch /\ IdlePost
    /\ now = StartTime /\ fpc = "tick" /\ rows = <<>> /\ fetched = <<>> /\ redo = FALSE
    /\ inbox = <<>> /\ lms = <<>> /\ outbox = <<>>

NextShard ==
    \/ \E i \in Procs : LockQuery(i)
    \/ \E i \in Procs : LockSleep(i)
    \/ SchedTick
    \/ FetchPush
    \/ \E w \in Workers : ConvertDrop(w)

SpecShard == InitShard /\ [][NextShard]_vars

\* The conversion workers after one fetch of the minute StartTime lies in,
\* and the batcher receiving their records before its ticker fires: the
\* fewer than batchCap records it receives stay in batchMap.  The workers
\* are followed while fewer than MaxPending records wait on lms.
InitConvert ==
    /\ \E q \in Partitions :
          /\ RunningOn(q)
          /\ inbox \in QueryResults(RoundTime(StartTime), RoundTime(StartTime) + 60, q)
    /\ IdleFetch /\ IdleConvert /\ IdleBatch /\ IdlePost
    /\ lms = <<>> /\ outbox = <<>>

NextConvert ==
    \/ \E w \in Workers :
          ConvertDrop(w) \/ ConvertStart(w) \/ (Len(lms) < MaxPending /\ ConvertSend(w))
    \/ BatchRecv

SpecConvert == InitConvert /\ [][NextConvert]_vars

\* The length of the streams of arbitrarily mixed tokens.
MaxMixed == 4

\* The length of the run of records of one token.
RunLen == 51

\* The sequences of at most n tokens.
TokenSeqs(n) == UNION { [1 .. k -> Tokens] : k \in 0 .. n }

\* n records of the token "abc".
Run(n) == [k \in 1 .. n |-> "abc"]

\* The records of the tokens ts, allocated in this order.
Stream(ts) == [k \in 1 .. Len(ts) |-> LM(ts[k], <<"m", Stats[((k - 1) % 9) + 1]>>, <<Upstream, k>>)]

\* The contents of lms the batcher starts from: every mix of at most
\* MaxMixed records, and a run of RunLen records of one token after at most
\* one other record.
BatchStreams ==
    { Stream(ts) : ts \in TokenSeqs(MaxMixed) }
        \cup { Stream(pre \o Run(RunLen)) : pre \in TokenSeqs(1) }

\* The batcher draining lms; nothing receives from outbox, which therefore
\* holds every batch pushed, in the order of the pushes.
InitBatch ==
    /\ IdleLock /\ IdleFetch /\ IdleBatch /\ IdlePost
    /\ cpc = [w \in Workers |-> 0]
    /\ cb = [w \in Workers |-> 0]
    /\ converted = {}
    /\ hydrated = {}
    /\ inbox = <<>> /\ outbox = <<>>
    /\ lms \in BatchStreams
    /\ nextLM = [s \in Senders |-> IF s = Upstream THEN Len(lms) ELSE 0]

NextBatch == BatchRecv \/ BatchCapSend \/ BatchTick \/ BatchPurge

SpecBatch == InitBatch /\ [][NextBatch]_vars

\* The scheduling of the batcher: its ticker fires every second and select
\* takes a case that is ready, so a tick that is due is handled and a record
\* that waits is received; a send on outbox goes through when there is room.
FairBatch ==
    /\ WF_vars(BatchTick)
    /\ WF_vars(BatchRecv)
    /\ WF_vars(BatchCapSend)
    /\ WF_vars(BatchPurge)

SpecBatchFair == SpecBatch /\ FairBatch

\* The length of the outbox the post workers start from.
MaxOutbox == 2

\* The batches the post workers are handed: post is explored as a unit for
\* every batch a channel can carry, the empty batch included.
PostBatches ==
    { <<>>,
      <<LM("abc", <<"m", "last">>, <<Upstream, 1>>)>>,
      <<LM("xyz", <<"m", "last">>, <<Upstream, 2>>), LM("xyz", <<"m", "min">>, <<Upstream, 3>>)>> }

\* The post workers draining an outbox.
InitPost ==
    /\ IdleLock /\ IdleFetch /\ IdleConvert /\ IdleBatch /\ IdlePost
    /\ inbox = <<>> /\ lms = <<>>
    /\ outbox \in [1 .. MaxOutbox -> PostBatches]

NextPost ==
    \E w \in Workers : PostRecv(w) \/ PostAttempt(w)

SpecPost == InitPost /\ [][NextPost]_vars

\* The number of items consumers are followed taking off a queue below its
\* capacity.
MaxDrain == 1

\* A queue within MaxDrain items of its capacity.
NearFull(ch, cap) == Len(ch) >= cap - MaxDrain

\* n records of alternating tokens, allocated after the first n0 records.
Backlog(n0, n) ==
    [k \in 1 .. n |-> LM(IF k % 2 = 0 THEN "abc" ELSE "xyz",
                         <<"m", Stats[((k - 1) % 9) + 1]>>, <<Upstream, n0 + k>>)]

\* The inbox after the fetches of the minute before StartTime, which push
\* the buckets of one window every processInterval seconds, with no
\* conversion worker keeping up: n placeholders of the buckets of the
\* window.
InboxBacklog(q, n) ==
    LET hi == RoundTime(StartTime)
    IN  { [k \in 1 .. n |-> r[((k - 1) % Len(r)) + 1]] : r \in QueryResults(hi - 60, hi, q) }

\* The inbox close to its capacity, the scheduler and the conversion
\* workers (whose hydrations fail or find no samples) running.
InitInboxFull ==
    /\ \E q \in Partitions :
          /\ RunningOn(q)
          /\ \E n \in (inboxCap - 1) .. inboxCap : inbox \in InboxBacklog(q, n)
    /\ IdleConvert /\ IdleBatch /\ IdlePost
    /\ now = StartTime /\ fpc = "tick" /\ rows = <<>> /\ fetched = <<>> /\ redo = FALSE
    /\ lms = <<>> /\ outbox = <<>>

\* lms close to its capacity, the conversion workers and the batcher's
\* receive running.
InitLmsFull ==
    /\ \E q \in Partitions :
          /\ RunningOn(q)
          /\ inbox \in QueryResults(RoundTime(StartTime), RoundTime(StartTime) + 60, q)
    /\ IdleFetch /\ IdleBatch /\ IdlePost
    /\ cpc = [w \in Workers |-> 0]
    /\ cb = [w \in Workers |-> 0]
    /\ converted = {}
    /\ hydrated = {}
    /\ \E n \in (lmsCap - 1) .. lmsCap : lms = Backlog(0, n)
    /\ nextLM = [s \in Senders |-> IF s = Upstream THEN Len(lms) ELSE 0]
    /\ outbox = <<>>

\* n records of the token "abc", allocated after the first n0 records.
RunFrom(n0, n) ==
    [k \in 1 .. n |-> LM("abc", <<"m", Stats[((k - 1) % 9) + 1]>>, <<Upstream, n0 + k>>)]

\* The outbox has room for one batch, the batcher holds nothing and two
\* records of two tokens wait on lms.
OutboxRoomForOne ==
    /\ outbox = [k \in 1 .. (outboxCap - 1) |-> <<Backlog(0, outboxCap)[k]>>]
    /\ batchMap = [t \in {} |-> <<>>]
    /\ lms = Backlog(outboxCap - 1, 2)

\* The outbox is full, the batcher holds a batch one record short of its
\* capacity and the record that fills it waits on lms.
OutboxFullBatchDue ==
    /\ outbox = [k \in 1 .. outboxCap |-> <<Backlog(0, outboxCap)[k]>>]
    /\ batchMap = [t \in {"abc"} |-> RunFrom(outboxCap, batchCap - 1)]
    /\ lms = RunFrom(outboxCap + batchCap - 1, 1)

\* The outbox with batches of one record, the batcher and the post workers
\* running: the outbox has room for one batch, the batcher holds nothing and
\* two records of two tokens wait on lms; or the outbox is full, the batcher
\* holds a batch one record short of its capacity and the record that fills
\* it waits on lms.
InitOutboxFull ==
    /\ IdleLock /\ IdleFetch /\ IdlePost
    /\ cpc = [w \in Workers |-> 0]
    /\ cb = [w \in Workers |-> 0]
    /\ converted = {}
    /\ hydrated = {}
    /\ inbox = <<>>
    /\ bpc = "select" /\ btoken = "" /\ ticks = <<>>
    /\ OutboxRoomForOne \/ OutboxFullBatchDue
    /\ received = HeldCount(DOMAIN batchMap)
    /\ nextLM = [s \in Senders |-> IF s = Upstream THEN Len(outbox) + received + Len(lms) ELSE 0]

InitFull == InitInboxFull \/ InitLmsFull \/ InitOutboxFull

\* The two stages around a queue that is close to its capacity; the
\* consumers are followed while the queue is within MaxDrain of it (the
\* batcher, which holds what it receives, for MaxDrain receptions).
\* NextStall has the stages from the conversion on.
NextStall ==
    \/ \E w \in Workers :
          /\ Len(inbox) > inboxCap - MaxDrain \/ NearFull(lms, lmsCap)
          /\ ConvertDrop(w)
    \/ \E w \in Workers : NearFull(lms, lmsCap) /\ ConvertStart(w)
    \/ \E w \in Workers : NearFull(lms, lmsCap) /\ ConvertSend(w)
    \/ /\ (NearFull(lms, lmsCap) /\ received < MaxDrain) \/ NearFull(outbox, outboxCap)
       /\ BatchRecv
    \/ NearFull(outbox, outboxCap) /\ BatchCapSend
    \/ NearFull(outbox, outboxCap) /\ BatchTick
    \/ NearFull(outbox, outboxCap) /\ BatchPurge
    \/ \E w \in Workers : Len(outbox) > outboxCap - MaxDrain /\ PostRecv(w)
    \/ \E w \in Workers : NearFull(outbox, outboxCap) /\ PostAttempt(w)

NextFull ==
    \/ NearFull(inbox, inboxCap) /\ SchedTick
    \/ NearFull(inbox, inboxCap) /\ FetchPush
    \/ NextStall

SpecFull == InitFull /\ [][NextFull]_vars

\* The scheduling of the stages after the conversion: a goroutine that can
\* take a step takes it.  An HTTP attempt ends (the transport of init dials
\* with a timeout and sets a deadline on the connection); a worker at the
\* receive takes a batch that waits; the batcher receives a record that
\* waits and sends when the outbox has room.
FairFull ==
    /\ \A w \in Workers : WF_vars(NearFull(outbox, outboxCap) /\ PostAttempt(w))
    /\ \A w \in Workers : WF_vars(Len(outbox) > outboxCap - MaxDrain /\ PostRecv(w))
    /\ WF_vars(NearFull(outbox, outboxCap) /\ BatchCapSend)
    /\ WF_vars(NearFull(outbox, outboxCap) /\ BatchPurge)
    /\ WF_vars(/\ (NearFull(lms, lmsCap) /\ received < MaxDrain) \/ NearFull(outbox, outboxCap)
               /\ BatchRecv)

\* The stages from the conversion on with lms close to its capacity, or
\* with the outbox full and the batcher about to fill a batch.
InitStall == InitLmsFull \/ (InitOutboxFull /\ OutboxFullBatchDue)

SpecStallFair == InitStall /\ [][NextStall]_vars /\ FairFull

-----------------------------------------------------------------------------
(* C7: partition exclusivity.  With maxPartitions = 2, no two processes    *)
(* that have returned from lockPartition and are still running hold the    *)
(* same partition index, and every such process holds the advisory lock    *)
(* of its index; so a third process never returns with an index the first  *)
(* two still hold.                                                         *)
PartitionExclusivity ==
    /\ maxPartitions = 2
    /\ \A i \in Procs : pc[i] = "run" =>
          /\ partitionId[i] \in Partitions
          /\ advisory[partitionId[i]] = i
    /\ \A i, j \in Procs :
          (i # j /\ pc[i] = "run" /\ pc[j] = "run") => partitionId[i] # partitionId[j]

\* Two processes hold the two indices while a third has scanned both
\* indices and found neither.
PartitionExclusivityWitness ==
    \E i, j, k \in Procs :
        /\ i # j /\ j # k /\ i # k
        /\ pc[i] = "run" /\ pc[j] = "run"
        /\ partitionId[i] # partitionId[j]
        /\ pc[k] = "scan" /\ scanIdx[k] = maxPartitions

-----------------------------------------------------------------------------
(* C4: retry bound.  A post worker never makes a 7th HTTP request for a    *)
(* batch; inside the retry loop the requests made equal the loop           *)
(* variable; and a worker that has left the loop for a non-empty batch     *)
(* without a 2xx response made exactly 6 requests and is ready to receive  *)
(* the next batch.                                                         *)
RetryBound ==
    \A w \in Workers :
        /\ requests[w] <= 6
        /\ ppc[w] = "try" => (requests[w] = retry[w] /\ retry[w] <= 5)
        /\ (ppc[w] = "done" /\ Len(metrics[w]) >= 1 /\ ~delivered[w]) =>
              /\ requests[w] = 6
              /\ outbox # <<>> => ENABLED PostRecv(w)

\* A worker has dropped a batch after 6 failed requests, transport errors
\* among them.
RetryBoundWitness ==
    \E w \in Workers :
        /\ ppc[w] = "done" /\ Len(metrics[w]) >= 1 /\ ~delivered[w]
        /\ requests[w] = 6
        /\ "do-error" \in plog[w]

(* C5: whenever the attempts for a non-empty batch are exhausted without   *)
(* a 2xx response, the terminal entry at=librato-status-error has been     *)
(* logged for it.                                                          *)
TerminalFailureLogged ==
    \A w \in Workers :
        (ppc[w] = "done" /\ Len(metrics[w]) >= 1 /\ ~delivered[w]) =>
            "librato-status-error" \in plog[w]

(* C10: a post worker that received a batch of 0 records has logged        *)
(* at=empty-metrics-error and nothing else, made no HTTP request, read no  *)
(* credentials and is back at the receive, ready for the next batch.       *)
EmptyBatchRejected ==
    \A w \in Workers :
        (ppc[w] # "idle" /\ Len(metrics[w]) = 0) =>
            /\ ppc[w] = "done"
            /\ plog[w] = {"empty-metrics-error"}
            /\ requests[w] = 0
            /\ creds[w] = {}
            /\ outbox # <<>> => ENABLED PostRecv(w)

\* A worker has rejected an empty batch while another batch waits.
EmptyBatchRejectedWitness ==
    \E w \in Workers :
        /\ ppc[w] = "done" /\ metrics[w] = <<>>
        /\ "empty-metrics-error" \in plog[w]
        /\ outbox # <<>>

-----------------------------------------------------------------------------
(* Helpers of the properties of batch.                                     *)

RECURSIVE Flatten(_)
\* The records of a queue of batches, in order.
Flatten(q) == IF q = <<>> THEN <<>> ELSE Head(q) \o Flatten(Tail(q))

\* The records the batcher holds in batchMap.
Held == UNION { { batchMap[k][j] : j \in 1 .. Len(batchMap[k]) } : k \in DOMAIN batchMap }

\* The records on the outbox.
Flushed == { Flatten(outbox)[j] : j \in 1 .. Len(Flatten(outbox)) }

\* The batches of token "abc" on the outbox, in the order of their pushes.
AbcBatches == SelectSeq(outbox, LAMBDA b : b # <<>> /\ b[1].Token = "abc")

(* C1: homogeneity.  Every batch on the outbox, pushed by the time         *)
(* trigger or by the capacity trigger, holds records of one token only.    *)
Homogeneity ==
    \A n \in 1 .. Len(outbox) :
        \A i, j \in 1 .. Len(outbox[n]) : outbox[n][i].Token = outbox[n][j].Token

\* Batches of both tokens were pushed, one of them made of records between
\* which a record of the other token arrived.
HomogeneityWitness ==
    \E m, n \in 1 .. Len(outbox) :
        /\ outbox[m] # <<>> /\ outbox[n] # <<>>
        /\ outbox[m][1].Token # outbox[n][1].Token
        /\ Len(outbox[m]) >= 2
        /\ outbox[m][2].Serial[2] > outbox[m][1].Serial[2] + 1

(* C2: every batch on the outbox has between 1 and 50 records.             *)
BatchLength ==
    \A n \in 1 .. Len(outbox) : 1 <= Len(outbox[n]) /\ Len(outbox[n]) <= 50

\* A batch of 50 records and a batch of 1 record were pushed.
BatchLengthWitness ==
    \E m, n \in 1 .. Len(outbox) : Len(outbox[m]) = 50 /\ Len(outbox[n]) = 1

(* C3: exactly once.  Every record the batcher has received from lms is    *)
(* either in batchMap or in one batch on the outbox, in one place and      *)
(* once; the batcher holds and has pushed nothing else.  (In SpecBatch     *)
(* nothing is taken off the outbox, so it holds every batch ever pushed.)  *)
ExactlyOnce ==
    /\ Len(Flatten(outbox)) + HeldCount(DOMAIN batchMap) = received
    /\ { r.Serial : r \in Flushed \cup Held } = { <<Upstream, k>> : k \in 1 .. received }

\* More than 50 records were received and all of them flushed, some by the
\* capacity trigger and some by the time trigger.
ExactlyOnceWitness ==
    /\ received > 50 /\ lms = <<>> /\ DOMAIN batchMap = {} /\ bpc = "select"
    /\ \E m, n \in 1 .. Len(outbox) : Len(outbox[m]) = 50 /\ Len(outbox[n]) < 50

\* The first 51 records allocated have the token "abc".
First51Abc ==
    /\ nextLM[Upstream] >= 51
    /\ \A r \in Flushed \cup Held \cup { lms[j] : j \in 1 .. Len(lms) } :
          r.Serial[2] \in 1 .. 51 => r.Token = "abc"

\* No tick was handled after the first and before the 51st reception.
NoTickWithin51 == \A n \in 1 .. Len(ticks) : ticks[n] = 0 \/ ticks[n] >= 51

(* C9: when the first 51 records are of one token and no tick is handled   *)
(* while they are received, nothing is flushed for the token before the    *)
(* 50th reception, the first batch flushed for it holds exactly the first  *)
(* 50 records in order, and the second batch starts with the 51st record   *)
(* and, when flushed by a tick handled right after the 51st reception,     *)
(* holds that record alone.                                                *)
CapacityThenRemainder ==
    (First51Abc /\ NoTickWithin51) =>
        /\ received < 50 => Len(AbcBatches) = 0
        /\ (received >= 50 /\ ~(received = 50 /\ bpc = "cap")) => Len(AbcBatches) >= 1
        /\ Len(AbcBatches) >= 1 =>
              /\ Len(AbcBatches[1]) = 50
              /\ \A k \in 1 .. 50 : AbcBatches[1][k].Serial = <<Upstream, k>>
        /\ Len(AbcBatches) >= 2 =>
              /\ AbcBatches[2][1].Serial = <<Upstream, 51>>
              /\ (\E n \in 1 .. Len(ticks) : ticks[n] = 51) => Len(AbcBatches[2]) = 1

\* 51 records of one token were received without a tick, and two batches
\* were flushed: the first 50 records, then the 51st alone.
CapacityThenRemainderWitness ==
    /\ First51Abc /\ NoTickWithin51
    /\ Len(AbcBatches) = 2
    /\ Len(AbcBatches[1]) = 50
    /\ Len(AbcBatches[2]) = 1 /\ AbcBatches[2][1].Serial = <<Upstream, 51>>

-----------------------------------------------------------------------------
(* Helpers of the properties of convert.                                   *)

\* The records on lms.
Queued == { lms[j] : j \in 1 .. Len(lms) }

\* The records convert has sent for bucket b, wherever they are now.  (In
\* SpecConvert no batch leaves the batcher.)
RecordsOf(b) == { r \in Queued \cup Held \cup Flushed : r.Name[1] = BucketName(b) }

\* The workers in the middle of the sends for bucket b.
Converting(b) == { w \in Workers : cb[w] = b /\ cpc[w] >= 1 }

(* C8: a bucket that hydrated with samples yields exactly nine records,    *)
(* sent in the order .last, .min, .max, .mean, .median, .perc95, .perc99,  *)
(* .count, .sum and all carrying the bucket's token: at every moment the   *)
(* records sent for a bucket are the first of these nine, in this order,   *)
(* and all nine once its worker is back at the receive.                    *)
NineRecords ==
    \A b \in hydrated :
        LET rs == RecordsOf(b)
            nine == <<"last", "min", "max", "mean", "median",
                      "perc95", "perc99", "count", "sum">>
        IN  /\ Cardinality(rs) <= 9
            /\ \A r \in rs :
                  /\ r.Token = BucketToken(b)
                  /\ r.Name[2] = nine[1 + Cardinality({ x \in rs : x.Serial[2] < r.Serial[2] })]
            /\ \A w \in Converting(b) : Cardinality(rs) = cpc[w] - 1
            /\ Converting(b) = {} => Cardinality(rs) = 9

\* A bucket was converted to nine records, and a record of another bucket
\* was sent between its eighth and its ninth: it is on lms before the ninth.
NineRecordsWitness ==
    \E b \in hydrated :
        /\ Converting(b) = {}
        /\ Cardinality(RecordsOf(b)) = 9
        /\ Len(lms) = 2
        /\ lms[1] \notin RecordsOf(b)
        /\ lms[2] \in RecordsOf(b) /\ lms[2].Name[2] = "sum"

-----------------------------------------------------------------------------
(* C6: idempotence of discovery.  A fetch that starts when every bucket of *)
(* its window has already been pushed onto inbox and taken off it by a     *)
(* conversion worker (the buckets table does not change) pushes nothing.   *)
DiscoveryIdempotent == redo => fetched = <<>>

-----------------------------------------------------------------------------
\* No queue holds more items than its capacity.
WithinCapacity == Len(inbox) <= 1000 /\ Len(lms) <= 1000 /\ Len(outbox) <= 1000

\* A producer at its send is blocked exactly while its queue is full.
BlocksWhileFull ==
    /\ \A w \in Workers : cpc[w] >= 1 => (ENABLED ConvertSend(w) <=> Len(lms) < 1000)
    /\ bpc = "cap" => (ENABLED BatchCapSend <=> Len(outbox) < 1000)
    /\ bpc = "purge" => (ENABLED BatchPurge <=> Len(outbox) < 1000)

\* A queue changes by a consumer taking its first item or by a producer
\* appending its item to a queue that is not full, and an item leaves its
\* producer only by being appended.
NothingDropped ==
    /\ inbox' # inbox =>
          \/ inbox # <<>> /\ inbox' = Tail(inbox)
          \/ Len(inbox) < 1000 /\ fpc = "push" /\ inbox' = Append(inbox, Head(rows))
    /\ (fpc = "push" /\ Len(inbox) = 1000 /\ fetched' # fetched) => FALSE
    /\ lms' # lms =>
          \/ lms # <<>> /\ lms' = Tail(lms)
          \/ Len(lms) < 1000 /\ Len(lms') = Len(lms) + 1 /\ SubSeq(lms', 1, Len(lms)) = lms
    /\ \A w \in Workers :
          (cpc[w] >= 1 /\ cpc'[w] # cpc[w]) =>
              /\ Len(lms') = Len(lms) + 1
              /\ lms'[Len(lms')].Name = <<BucketName(cb[w]), Stats[cpc[w]]>>
    /\ outbox' # outbox =>
          \/ outbox # <<>> /\ outbox' = Tail(outbox)
          \/ Len(outbox) < 1000 /\ Len(outbox') = Len(outbox) + 1
                /\ SubSeq(outbox', 1, Len(outbox)) = outbox
    /\ \A k \in DOMAIN batchMap \ DOMAIN batchMap' : outbox' = Append(outbox, batchMap[k])

(* C11: backpressure.  Each of inbox, lms and outbox holds at most 1000     *)
(* items in every reachable state; a conversion worker or the batcher at   *)
(* its send is blocked while its queue is full and can send as soon as a   *)
(* consumer has taken an item; discovery pushes nothing onto a full inbox; *)
(* and no producer drops an item or grows a queue beyond its capacity: an  *)
(* item leaves its producer only by being appended to the queue.           *)
Backpressure == [](WithinCapacity /\ BlocksWhileFull) /\ [][NothingDropped]_vars

\* The batcher filled a batch while the outbox was full; a post worker took
\* a batch off the outbox and the batcher pushed its batch of 50 records,
\* which made the outbox full again.
BackpressureWitness ==
    /\ Len(outbox) = outboxCap
    /\ Len(outbox[outboxCap]) = batchCap
    /\ \E w \in Workers : ppc[w] # "idle"

-----------------------------------------------------------------------------
\* After a tick has been handled, the batcher holds none of the records it
\* had received before the tick, and all of them are on the outbox.
PurgedAtTick ==
    \A n \in 1 .. Len(ticks) :
        (n < Len(ticks) \/ bpc # "purge") =>
            /\ \A r \in Held : r.Serial[2] > ticks[n]
            /\ \A k \in 1 .. ticks[n] : \E r \in Flushed : r.Serial = <<Upstream, k>>

\* The range over batchMap pushes every non-empty batch it deletes and ends
\* with the mapping empty.
PurgeStep ==
    bpc = "purge" =>
        /\ \A k \in DOMAIN batchMap \ DOMAIN batchMap' :
              Len(batchMap[k]) > 0 => outbox' = Append(outbox, batchMap[k])
        /\ bpc' # "purge" => DOMAIN batchMap' = {}

(* C12: time trigger.  Handling a tick, the batcher pushes every non-empty *)
(* batch it holds onto the outbox and leaves batchMap empty; no record     *)
(* received before a tick is still in batchMap once the tick has been      *)
(* handled (it is on the outbox); and, while a tick is still to come,      *)
(* the records the batcher holds are eventually all flushed.               *)
TimeTrigger ==
    /\ []PurgedAtTick
    /\ [][PurgeStep]_vars
    /\ (Held # {} /\ Len(ticks) < MaxTicks) ~> (Held = {} /\ bpc = "select")

\* A tick was handled while the batcher held batches of both tokens: both
\* are on the outbox and batchMap is empty.
TimeTriggerWitness ==
    /\ Len(ticks) >= 1 /\ ticks[1] >= 3 /\ ticks[1] < batchCap
    /\ bpc = "select" /\ DOMAIN batchMap = {}
    /\ received = ticks[1]
    /\ \E m, n \in 1 .. Len(outbox) :
          outbox[m][1].Token = "abc" /\ outbox[n][1].Token = "xyz" /\ Len(outbox[m]) >= 2

-----------------------------------------------------------------------------
\* A worker whose batch got a 2xx response is out of the retry loop, and the
\* requests it made are the iterations up to the one that succeeded.
StoppedAtSuccess ==
    \A w \in Workers :
        delivered[w] =>
            /\ ppc[w] = "done"
            /\ ~ENABLED PostAttempt(w)
            /\ requests[w] = retry[w] + 1
            /\ requests[w] \in 1 .. 6

\* A 2xx response ends the attempts: after it the worker makes no request
\* until it has received another batch.
NoAttemptAfterSuccess ==
    \A w \in Workers :
        delivered[w] =>
            \/ requests'[w] = requests[w] /\ delivered'[w]
            \/ requests'[w] = 0 /\ ~delivered'[w] /\ outbox' = Tail(outbox)

(* C13: once an attempt for a batch got a 2xx response, post makes no      *)
(* further attempt for that batch: the worker has left the retry loop, the *)
(* number of requests it made is the index (from 1) of the attempt that    *)
(* got the 2xx response, and the next request it makes is for another      *)
(* batch.                                                                  *)
StopOnSuccess == []StoppedAtSuccess /\ [][NoAttemptAfterSuccess]_vars

\* A batch was delivered at the third attempt, after a transport error.
StopOnSuccessWitness ==
    \E w \in Workers :
        /\ delivered[w] /\ requests[w] = 3 /\ "do-error" \in plog[w]
        /\ Len(metrics[w]) = 2

-----------------------------------------------------------------------------
\* The buckets taken off inbox whose hydration failed or found no samples.
Dropped == converted \ hydrated

\* No record exists for a dropped bucket, no bucket without samples was
\* hydrated, and a worker that is not in the middle of its sends can take
\* the next placeholder.
DroppedYieldNothing ==
    /\ \A b \in Dropped : RecordsOf(b) = {}
    /\ \A b \in hydrated : BucketVals(b) > 0
    /\ \A w \in Workers :
          (cpc[w] = 0 /\ inbox # <<>>) => ENABLED (ConvertDrop(w) \/ ConvertStart(w))

\* Nothing is put on inbox by the conversion workers, a dropped bucket is
\* not hydrated again, and the step that drops a bucket sends nothing and
\* leaves the worker at the receive.
DropStep ==
    /\ inbox' # inbox => inbox' = Tail(inbox)
    /\ \A b \in Dropped : b \notin hydrated'
    /\ (inbox' # inbox /\ hydrated' = hydrated) =>
          /\ lms' = lms
          /\ cpc' = cpc
          /\ \E w \in Workers : cpc[w] = 0 /\ cb'[w] = Head(inbox)

(* C14: when the hydration of a bucket fails, or succeeds with zero        *)
(* samples, convert sends no record for the bucket, the bucket is not put  *)
(* back on inbox and is not hydrated again, and the worker is back at the  *)
(* receive, able to take the next placeholder.                             *)
DropWithoutRetry == []DroppedYieldNothing /\ [][DropStep]_vars

\* One worker, the only one to have received anything, dropped a bucket
\* that has samples (its hydration failed) and then converted the next
\* bucket to nine records.
DropWithoutRetryWitness ==
    \E w \in Workers, b \in Dropped :
        /\ BucketVals(b) > 0
        /\ \A v \in Workers \ {w} : cb[v] = 0
        /\ cb[w] \in hydrated /\ cpc[w] = 0
        /\ Cardinality(RecordsOf(cb[w])) = 9
        /\ inbox = <<>>

-----------------------------------------------------------------------------
\* A process inside lockPartition is at an index of the scan or at the
\* sleep, and can go on; the indices below its own were passed in this
\* scan.
Scanning ==
    \A i \in Procs :
        pc[i] = "scan" =>
            /\ scanIdx[i] \in 0 .. maxPartitions
            /\ ENABLED (LockQuery(i) \/ LockSleep(i))

\* lockPartition returns the index it is querying, in [0, maxPartitions),
\* and only when the lock of that index was free for it; a process leaves
\* lockPartition in no other way; and an index that is not acquired leaves
\* the scan at the next index, the locks untouched.
ReturnStep ==
    \A i \in Procs :
        /\ (pc[i] = "scan" /\ pc'[i] # "scan") =>
              /\ pc'[i] = "run"
              /\ scanIdx[i] \in Partitions
              /\ partitionId'[i] = scanIdx[i]
              /\ advisory[scanIdx[i]] = Free
              /\ advisory'[scanIdx[i]] = i
        /\ (pc[i] = "scan" /\ scanIdx'[i] # scanIdx[i]) =>
              /\ pc'[i] = "scan"
              /\ advisory' = advisory
              /\ IF scanIdx[i] < maxPartitions
                 THEN scanIdx'[i] = scanIdx[i] + 1
                 ELSE scanIdx'[i] = 0

(* C15: lockPartition returns only an index p in [0, maxPartitions) whose  *)
(* try-lock query, the one of the current position of the scan, answered   *)
(* true: the scan visits the indices in ascending order and returns at the *)
(* first such answer.  A query that fails, like one that answers false,    *)
(* moves the scan to the next index; the process never leaves              *)
(* lockPartition with an error.                                            *)
FirstGranted == []Scanning /\ [][ReturnStep]_vars

\* A process returned index 1 although index 0 was free during its whole
\* scan (no process has ended, none holds index 0): its query on index 0
\* failed.
FirstGrantedWitness ==
    /\ \A j \in Procs : pc[j] # "dead"
    /\ advisory[0] = Free
    /\ \E i \in Procs : pc[i] = "run" /\ partitionId[i] = 1

-----------------------------------------------------------------------------
\* Some index is free.
SomeFree == \E p \in Partitions : advisory[p] = Free

\* A process at the end of a scan that found no index sleeps and rescans.
Rescans ==
    \A i \in Procs :
        (pc[i] = "scan" /\ scanIdx[i] = maxPartitions) =>
            /\ ENABLED LockSleep(i)
            /\ ~ENABLED LockQuery(i)

\* A process inside lockPartition stays there while no index is free, and
\* leaves it only by returning an index.
WaitsWhileTaken ==
    \A i \in Procs :
        pc[i] = "scan" =>
            /\ pc'[i] \in {"scan", "run"}
            /\ ~SomeFree => pc'[i] = "scan"

(* C16: eventual acquisition.  A process that has scanned every index      *)
(* without acquiring one sleeps and rescans, any number of times; while    *)
(* no index is free it does not return; and if an index is free, the       *)
(* process eventually returns an index, unless other processes take every  *)
(* index first (queries on a free index do not fail for ever).             *)
EventualAcquisition ==
    /\ []Rescans
    /\ [][WaitsWhileTaken]_vars
    /\ \A i \in Procs : (pc[i] = "scan" /\ SomeFree) ~> (pc[i] = "run" \/ ~SomeFree)

\* Two processes held the two indices; one of them ended, and the third
\* process now holds the index it left.
EventualAcquisitionWitness ==
    \E i, j, k \in Procs :
        /\ pc[j] = "dead" /\ pc[i] = "run" /\ pc[k] = "run"
        /\ partitionId[i] = partitionId[j]
        /\ partitionId[k] # partitionId[i]

-----------------------------------------------------------------------------
\* The records of batch b are in the order of their receptions.  (In
\* SpecBatch the k-th record received is the k-th record allocated.)
InArrivalOrder(b) ==
    \A i, j \in 1 .. Len(b) : i < j => b[i].Serial[2] < b[j].Serial[2]

(* C17: in every batch on the outbox, and in every batch the batcher       *)
(* holds, the records are in the order in which the batcher received them  *)
(* from lms, whatever records of other tokens arrived in between.          *)
ArrivalOrder ==
    /\ \A n \in 1 .. Len(outbox) : InArrivalOrder(outbox[n])
    /\ \A k \in DOMAIN batchMap : InArrivalOrder(batchMap[k])

\* A batch of three records was pushed whose first two records were
\* received with a record of the other token between them.
ArrivalOrderWitness ==
    \E n \in 1 .. Len(outbox) :
        /\ Len(outbox[n]) = 3
        /\ outbox[n][1].Serial[2] + 2 = outbox[n][2].Serial[2]
        /\ outbox[n][2].Serial[2] < outbox[n][3].Serial[2]

-----------------------------------------------------------------------------
\* The bucket ids process Self has obtained from a query, pushed onto its
\* inbox or handed to a conversion worker.
Discovered ==
    { rows[j] : j \in 1 .. Len(rows) } \cup { fetched[j] : j \in 1 .. Len(fetched) }
        \cup { inbox[j] : j \in 1 .. Len(inbox) } \cup converted

\* Every id discovered by a process is of the shard of the index it holds.
OwnShardOnly ==
    \A id \in Discovered : pc[Self] = "run" /\ id % maxPartitions = partitionId[Self]

\* Before lockPartition has returned, the scheduler has not ticked and no
\* query has been made.
NoQueryBeforeLock ==
    pc[Self] = "scan" => (now = StartTime /\ fpc = "tick" /\ Discovered = {})

\* The queries of two distinct indices select no bucket id in common,
\* whatever their windows.
ShardsDisjoint ==
    \A q1, q2 \in Partitions :
        q1 # q2 =>
            \A t1, t2 \in {0, 60, 120} :
                Selected(t1, t1 + 60, q1) \cap Selected(t2, t2 + 60, q2) = {}

(* C18: shard disjointness.  A process pushes onto its inbox only bucket   *)
(* ids whose remainder modulo maxPartitions is its own partitionId; the    *)
(* ids two processes of distinct indices select are disjoint; and no       *)
(* discovery query is made before the process has acquired its partition.  *)
ShardDisjointness == OwnShardOnly /\ NoQueryBeforeLock /\ ShardsDisjoint

\* Process Self acquired index 1 while another process holds index 0, and
\* has pushed two buckets of its shard onto its inbox.
ShardDisjointnessWitness ==
    /\ pc[Self] = "run" /\ partitionId[Self] = 1
    /\ \E j \in Procs \ {Self} : pc[j] = "run" /\ partitionId[j] = 0
    /\ Len(fetched) = 2 /\ Len(inbox) = 2

-----------------------------------------------------------------------------
\* The start of the minute of the last tick.
ThisMinute == (now \div 60) * 60

\* The last tick's seconds field is divisible by processInterval.
DueNow == (now % 60) % processInterval = 0

\* The ids of the query in progress and the ids the last fetch has pushed
\* are of buckets of the last whole minute before the tick of that fetch
\* (which is in the minute of the last tick); no id on inbox is of a bucket
\* of the minute in progress; and fetch is in progress on due ticks only.
CompletedMinuteOnly ==
    /\ \A id \in { rows[j] : j \in 1 .. Len(rows) } \cup { fetched[j] : j \in 1 .. Len(fetched) } :
          BucketTime(id) >= ThisMinute - 60 /\ BucketTime(id) < ThisMinute
    /\ \A j \in 1 .. Len(inbox) : BucketTime(inbox[j]) < ThisMinute
    /\ fpc = "push" => DueNow
    /\ (fpc = "tick" /\ now < MaxTime) => ENABLED SchedTick

\* A tick that is not due starts no fetch and pushes nothing; a push
\* happens inside the fetch of a due tick.
DueTicksOnly ==
    /\ (now' # now /\ (now' % 60) % processInterval # 0) =>
          (rows' = rows /\ fetched' = fetched /\ fpc' = "tick" /\ inbox' = inbox)
    /\ (now' # now /\ (now' % 60) % processInterval = 0) =>
          (fetched' = <<>> /\ inbox' = inbox)
    /\ (Len(inbox') > Len(inbox)) =>
          (fpc = "push" /\ DueNow /\ now' = now /\ inbox' = Append(inbox, Head(rows)))

(* C19: discovery runs only on ticks whose seconds field is divisible by   *)
(* processInterval; the fetch of the tick at time t pushes only buckets    *)
(* whose time lies in [floor(t, 1 minute) - 1 minute, floor(t, 1 minute)), *)
(* never a bucket of the minute in progress; a tick whose query fails      *)
(* pushes nothing, and the scheduler goes on with the next tick.           *)
WindowOfFetch == []CompletedMinuteOnly /\ [][DueTicksOnly]_vars

\* The fetch of the tick at second 0 pushed nothing (its query or its scans
\* failed); the fetch of the tick at second 5 has pushed the two buckets of
\* the shard of the minute before.
WindowOfFetchWitness ==
    /\ now % 60 = 5
    /\ converted = {}
    /\ Len(fetched) = 2 /\ inbox = fetched
    /\ fpc = "tick"

-----------------------------------------------------------------------------
\* No worker has ended: a post worker is at the receive, able to take a
\* batch that waits, or inside the retry loop, able to make its attempt; a
\* conversion worker is at the receive, able to take a placeholder that
\* waits, or at one of its sends.
WorkersAlive ==
    \A w \in Workers :
        /\ ppc[w] \in {"idle", "try", "done"}
        /\ (ppc[w] # "try" /\ outbox # <<>>) => ENABLED PostRecv(w)
        /\ ppc[w] = "try" => ENABLED PostAttempt(w)
        /\ cpc[w] \in 0 .. 9
        /\ (cpc[w] = 0 /\ inbox # <<>>) => ENABLED (ConvertDrop(w) \/ ConvertStart(w))

\* The batcher is at a send and the outbox is full.
BatcherBlocked == bpc \in {"cap", "purge"} /\ Len(outbox) = outboxCap

\* Conversion worker w is at a send and lms is full.
ConverterBlocked(w) == cpc[w] >= 1 /\ Len(lms) = lmsCap

=============================================================================
